---- MODULE Spec2Model ----
(***************************************************************************)
(* Model of file_tree.py: the folder mapping script.                       *)
(*                                                                         *)
(* Text is modelled as sequences of one-character strings, so that         *)
(* str.strip, str.lower, str.split, str.startswith, int(), os.path.join    *)
(* and os.path.basename are computed character by character.               *)
(* One action is one input() of the session together with everything the   *)
(* script does until it blocks on the next input() or exits.               *)
(***************************************************************************)
EXTENDS Integers, Sequences, FiniteSets, TLC

VARIABLES
    fs,              \* the directory tree below os.getcwd()
    disk,            \* what open()/readlines() gave for each path at the last search
    pc,              \* the input() the script is blocked on, or "exited"
    tree_out,        \* the lines print_folder_tree printed
    file_list,       \* main: file_list
    selected_files,  \* main: selected_files
    last_prompt,     \* the prompt that was answered last
    last_input,      \* the raw text entered at that prompt
    out,             \* the lines printed while handling last_input
    searched,        \* the arguments of the search_in_files call made while handling last_input
    exit_status,     \* the process exit status once pc = "exited"
    exit_via         \* how the process ended

vars == <<fs, disk, pc, tree_out, file_list, selected_files, last_prompt,
          last_input, out, searched, exit_status, exit_via>>

----------------------------------------------------------------------------
(* Bounds *)

MaxEntries == 3     \* entries below the scanned folder (SpecScan)
MaxFiles == 2       \* files in the folder of the selection runs (SpecSelect)
MaxInputLen == 3    \* characters of a selection input (SpecSelect)
MaxFileLen == 3     \* characters of a searched file (SpecSearch)
SessionEntries == 1 \* entries below the current directory of a whole session (Spec)

----------------------------------------------------------------------------
(* Text *)

\* s1 \o s2 \o ... for a sequence of sequences
RECURSIVE Concat(_)
Concat(ss) == IF ss = <<>> THEN <<>> ELSE Head(ss) \o Concat(Tail(ss))

\* all sequences over S of length 0..n
RECURSIVE SeqsUpTo(_, _)
SeqsUpTo(S, n) ==
    IF n = 0 THEN {<<>>}
    ELSE LET shorter == SeqsUpTo(S, n - 1)
         IN shorter \cup {Append(s, c) : s \in shorter, c \in S}

Whitespace == {" ", "\t", "\n", "\r"}

UpperCase == <<"A","B","C","D","E","F","G","H","I","J","K","L","M",
               "N","O","P","Q","R","S","T","U","V","W","X","Y","Z">>
LowerCase == <<"a","b","c","d","e","f","g","h","i","j","k","l","m",
               "n","o","p","q","r","s","t","u","v","w","x","y","z">>

LowerChar(c) ==
    IF \E i \in DOMAIN UpperCase : UpperCase[i] = c
    THEN LowerCase[CHOOSE i \in DOMAIN UpperCase : UpperCase[i] = c]
    ELSE c

\* str.lower
Lower(s) == [i \in DOMAIN s |-> LowerChar(s[i])]

RECURSIVE LStrip(_)
LStrip(s) == IF s # <<>> /\ Head(s) \in Whitespace THEN LStrip(Tail(s)) ELSE s

RECURSIVE RStrip(_)
RStrip(s) ==
    IF s # <<>> /\ s[Len(s)] \in Whitespace
    THEN RStrip(SubSeq(s, 1, Len(s) - 1))
    ELSE s

\* str.strip
Strip(s) == RStrip(LStrip(s))

\* str.split(): the maximal runs of non-whitespace characters, in order
RECURSIVE SplitFrom(_, _, _)
SplitFrom(s, cur, acc) ==
    IF s = <<>> THEN (IF cur = <<>> THEN acc ELSE Append(acc, cur))
    ELSE IF Head(s) \in Whitespace
         THEN SplitFrom(Tail(s), <<>>, IF cur = <<>> THEN acc ELSE Append(acc, cur))
         ELSE SplitFrom(Tail(s), Append(cur, Head(s)), acc)

Split(s) == SplitFrom(s, <<>>, <<>>)

\* str.startswith('.')
StartsWithDot(s) == s # <<>> /\ s[1] = "."

\* t in s (substring)
Contains(s, t) ==
    \E i \in 1..(Len(s) - Len(t) + 1) : SubSeq(s, i, i + Len(t) - 1) = t

Digits == <<"0","1","2","3","4","5","6","7","8","9">>
IsDigit(c) == \E i \in DOMAIN Digits : Digits[i] = c
DigitValue(c) == (CHOOSE i \in DOMAIN Digits : Digits[i] = c) - 1

\* int(tok) succeeds: an optional sign and at least one decimal digit (the inputs
\* hold no '_' and no digit outside 0-9)
IsInt(tok) ==
    LET body == IF tok # <<>> /\ tok[1] \in {"+", "-"} THEN Tail(tok) ELSE tok
    IN body # <<>> /\ \A i \in DOMAIN body : IsDigit(body[i])

RECURSIVE DecimalValue(_, _)
DecimalValue(ds, acc) ==
    IF ds = <<>> THEN acc ELSE DecimalValue(Tail(ds), 10 * acc + DigitValue(Head(ds)))

\* int(tok), for a tok with IsInt(tok)
ParseInt(tok) ==
    IF tok[1] = "-" THEN 0 - DecimalValue(Tail(tok), 0)
    ELSE IF tok[1] = "+" THEN DecimalValue(Tail(tok), 0)
    ELSE DecimalValue(tok, 0)

\* the code points of the characters that occur in entry names
Ord(c) ==
    CASE c = " " -> 32 [] c = "-" -> 45 [] c = "." -> 46 [] c = "/" -> 47
      [] c = "_" -> 95
      [] IsDigit(c) -> 48 + DigitValue(c)
      [] \E i \in DOMAIN UpperCase : UpperCase[i] = c ->
            64 + (CHOOSE i \in DOMAIN UpperCase : UpperCase[i] = c)
      [] \E i \in DOMAIN LowerCase : LowerCase[i] = c ->
            96 + (CHOOSE i \in DOMAIN LowerCase : LowerCase[i] = c)

\* s < t as Python compares str: by code point, a proper prefix first
RECURSIVE StrLess(_, _)
StrLess(s, t) ==
    IF t = <<>> THEN FALSE
    ELSE IF s = <<>> THEN TRUE
    ELSE IF Head(s) = Head(t) THEN StrLess(Tail(s), Tail(t))
    ELSE Ord(Head(s)) < Ord(Head(t))

\* list.sort() of a list of distinct names
RECURSIVE InsertSorted(_, _)
InsertSorted(sorted, s) ==
    IF sorted = <<>> THEN <<s>>
    ELSE IF StrLess(s, Head(sorted)) THEN <<s>> \o sorted
    ELSE <<Head(sorted)>> \o InsertSorted(Tail(sorted), s)

RECURSIVE Sort(_)
Sort(names) == IF names = <<>> THEN <<>> ELSE InsertSorted(Sort(Tail(names)), Head(names))

\* os.path.join(a, b) for a relative b
Join(a, b) == IF a = <<>> \/ a[Len(a)] = "/" THEN a \o b ELSE a \o <<"/">> \o b

\* os.path.basename(p): what follows the last "/"
RECURSIVE Basename(_)
Basename(p) ==
    IF \E i \in DOMAIN p : p[i] = "/"
    THEN Basename(SubSeq(p, (CHOOSE i \in DOMAIN p : p[i] = "/") + 1, Len(p)))
    ELSE p

----------------------------------------------------------------------------
(* Filter policy *)

IGNORE_DIRS ==
    { <<"n","o","d","e","_","m","o","d","u","l","e","s">>,
      <<".","g","i","t">>,
      <<"b","u","i","l","d">>,
      <<"d","i","s","t">>,
      <<"_","_","p","y","c","a","c","h","e","_","_">> }

IGNORE_FILES ==
    { <<".","D","S","_","S","t","o","r","e">>,
      <<"p","a","c","k","a","g","e","-","l","o","c","k",".","j","s","o","n">>,
      <<"y","a","r","n",".","l","o","c","k">> }

\* the test of lines 60 and 92 without the hidden-name rule
DirSkippedByNameOnly(d) == d \in IGNORE_DIRS

\* the test of lines 60 and 92
DirSkipped(d) == d \in IGNORE_DIRS \/ StartsWithDot(d)

\* the test of lines 64 and 96
FileSkipped(f) == f \in IGNORE_FILES \/ StartsWithDot(f)

----------------------------------------------------------------------------
(* The directory tree *)

\* os.getcwd()
CWD == <<"/","w">>

\* A tree has entries 1..n below its root 0.  The entries of a directory are
\* listed (os.listdir, os.scandir) in the order of their numbers, which is
\* unrelated to their names.
EntryNames ==
    { <<"a">>, <<".","e">>, <<"b","u","i","l","d">>,
      <<"y","a","r","n",".","l","o","c","k">> }

Trees(n, names) ==
    { t \in [n : {n}, name : [1..n -> names], kind : [1..n -> {"dir", "file"}],
             parent : [1..n -> 0..(n - 1)]] :
        /\ \A i \in 1..n : t.parent[i] < i
        /\ \A i \in 1..n : t.parent[i] # 0 => t.kind[t.parent[i]] = "dir"
        /\ \A i, j \in 1..n :
              (i # j /\ t.parent[i] = t.parent[j]) => t.name[i] # t.name[j] }

TreesUpTo(n, names) == UNION { Trees(k, names) : k \in 0..n }

Entries(t) == 1..t.n

\* the entries of directory d, in listing order
Children(t, d) == SelectSeq([i \in 1..t.n |-> i], LAMBDA i : t.parent[i] = d)

NamesOf(t, es) == [k \in DOMAIN es |-> t.name[es[k]]]

ChildNamed(t, d, nm) == CHOOSE i \in Entries(t) : t.parent[i] = d /\ t.name[i] = nm

----------------------------------------------------------------------------
(* scan_directory *)

\* lines 63-68 with index += 1 ahead of the test of line 64
RECURSIVE ScanFilesSkipCounts(_, _, _)
ScanFilesSkipCounts(files, root, acc) ==
    IF files = <<>> THEN acc
    ELSE LET f == Head(files)
         IN ScanFilesSkipCounts(Tail(files), root,
                IF FileSkipped(f)
                THEN [acc EXCEPT !.index = @ + 1]
                ELSE [file_list |-> Append(acc.file_list, <<acc.index, Join(root, f)>>),
                      index |-> acc.index + 1])

\* lines 63-68: the loop over the files of one directory;
\* acc is [file_list, index]
RECURSIVE ScanFiles(_, _, _)
ScanFiles(files, root, acc) ==
    IF files = <<>> THEN acc
    ELSE LET f == Head(files)
         IN ScanFiles(Tail(files), root,
                IF FileSkipped(f)
                THEN acc
                ELSE [file_list |-> Append(acc.file_list, <<acc.index, Join(root, f)>>),
                      index |-> acc.index + 1])

\* line 60: dirs[:] = [d for d in dirs if ...]
PruneDirs(t, ds) == SelectSeq(ds, LAMBDA d : ~DirSkipped(t.name[d]))

\* lines 58-68: os.walk(base_path, topdown=True) from directory d, whose path is root:
\* the files of d first, then each directory that line 60 kept, in listing order
RECURSIVE Walk(_, _, _, _)
RECURSIVE WalkDirs(_, _, _, _)
Walk(t, d, root, acc) ==
    LET entries == Children(t, d)
        dirs == PruneDirs(t, SelectSeq(entries, LAMBDA e : t.kind[e] = "dir"))
        files == NamesOf(t, SelectSeq(entries, LAMBDA e : t.kind[e] # "dir"))
    IN WalkDirs(t, dirs, root, ScanFiles(files, root, acc))

WalkDirs(t, ds, root, acc) ==
    IF ds = <<>> THEN acc
    ELSE WalkDirs(t, Tail(ds), root,
                  Walk(t, Head(ds), Join(root, t.name[Head(ds)]), acc))

\* lines 48-70
scan_directory(t, d, base_path) ==
    Walk(t, d, base_path, [file_list |-> <<>>, index |-> 1]).file_list

----------------------------------------------------------------------------
(* print_folder_tree *)

\* lines 89-98: the names of the entries of d that are kept, directories and files
KeptDirs(t, d) ==
    NamesOf(t, SelectSeq(Children(t, d),
                         LAMBDA e : t.kind[e] = "dir" /\ ~DirSkipped(t.name[e])))

KeptFiles(t, d) ==
    NamesOf(t, SelectSeq(Children(t, d),
                         LAMBDA e : t.kind[e] # "dir" /\ ~FileSkipped(t.name[e])))

\* lines 72-115: the lines printed for directory d, whose path is base_path
RECURSIVE print_folder_tree(_, _, _, _)
RECURSIVE PrintDirs(_, _, _, _, _)
print_folder_tree(t, d, base_path, prefix) ==
    LET dirs == Sort(KeptDirs(t, d))
        local_files == Sort(KeptFiles(t, d))
        child_prefix == prefix \o <<" ", " ">>
    IN <<prefix \o Basename(base_path) \o <<"/">>>>
       \o PrintDirs(t, d, dirs, base_path, child_prefix)
       \o [k \in DOMAIN local_files |-> child_prefix \o local_files[k]]

\* lines 110-111
PrintDirs(t, d, dirs, base_path, child_prefix) ==
    IF dirs = <<>> THEN <<>>
    ELSE print_folder_tree(t, ChildNamed(t, d, Head(dirs)),
                           Join(base_path, Head(dirs)), child_prefix)
         \o PrintDirs(t, d, Tail(dirs), base_path, child_prefix)

----------------------------------------------------------------------------
(* Printed lines: the format string of the print call and what fills it *)

Line(fmt, s, n) == [fmt |-> fmt, s |-> s, n |-> n]
Say(fmt) == Line(fmt, <<>>, 0)

QuitTokens == { <<"q">>, <<"q","u","i","t">> }

----------------------------------------------------------------------------
(* prompt_file_selection *)

\* lines 127-133: the list of discovered files and the instructions
ListingLines(fl) ==
    <<Say("\nList of discovered files:")>>
    \o [k \in DOMAIN fl |-> Line("{idx}. {path}", fl[k][2], fl[k][1])]
    \o <<Say("\nEnter the file indices separated by spaces (e.g., '1 3 5'), "),
         Say("or '.' to select all, or 'none' to select none."),
         Say("Type 'q' or 'quit' to exit.")>>

\* lines 149-152 without the break: the last index that is not in valid_indices
RECURSIVE LastInvalid(_, _)
LastInvalid(indices, valid_indices) ==
    IF indices = <<>> THEN <<>>
    ELSE LET rest == LastInvalid(Tail(indices), valid_indices)
         IN IF rest # <<>> THEN rest
            ELSE IF Head(indices) \notin valid_indices THEN <<Head(indices)>>
            ELSE <<>>

\* lines 149-152: the first index of indices that is not in valid_indices, as a
\* sequence of at most one element
RECURSIVE FirstInvalid(_, _)
FirstInvalid(indices, valid_indices) ==
    IF indices = <<>> THEN <<>>
    ELSE IF Head(indices) \notin valid_indices THEN <<Head(indices)>>
    ELSE FirstInvalid(Tail(indices), valid_indices)

\* lines 157-160: the path of the first entry of file_list whose index is i
PathOfIndex(fl, i) == fl[CHOOSE k \in DOMAIN fl : fl[k][1] = i /\ \A j \in 1..(k - 1) : fl[j][1] # i][2]

\* lines 155-160 with a path selected once only
RECURSIVE ResolveDistinct(_, _)
ResolveDistinct(fl, indices) ==
    IF indices = <<>> THEN <<>>
    ELSE LET rest == ResolveDistinct(fl, Tail(indices))
             p == PathOfIndex(fl, Head(indices))
         IN IF \E k \in DOMAIN rest : rest[k] = p THEN rest ELSE <<p>> \o rest

\* lines 155-160
Resolve(fl, indices) == [k \in DOMAIN indices |-> PathOfIndex(fl, indices[k])]

\* the loop pass of lines 136-163 with an input of no token rejected
SelectionRejectsEmpty(fl, raw) ==
    LET selection == Strip(raw)
        tokens == Split(selection)
        indices == [k \in DOMAIN tokens |-> ParseInt(tokens[k])]
        valid_indices == {fl[k][1] : k \in DOMAIN fl}
        bad == FirstInvalid(indices, valid_indices)
    IN IF Lower(selection) \in QuitTokens
       THEN [result |-> "exit", selected |-> <<>>, out |-> <<>>]
       ELSE IF selection = <<".">>
       THEN [result |-> "return", selected |-> [k \in DOMAIN fl |-> fl[k][2]], out |-> <<>>]
       ELSE IF Lower(selection) = <<"n","o","n","e">>
       THEN [result |-> "return", selected |-> <<>>, out |-> <<>>]
       ELSE IF tokens = <<>> \/ \E k \in DOMAIN tokens : ~IsInt(tokens[k])
       THEN [result |-> "retry", selected |-> <<>>,
             out |-> <<Say("Invalid input. Please enter indices like '1 2 3' or '.' or 'none'.")>>]
       ELSE IF bad # <<>>
       THEN [result |-> "retry", selected |-> <<>>,
             out |-> <<Line("Index {i} is not in the list of files.", <<>>, bad[1])>>]
       ELSE [result |-> "return", selected |-> Resolve(fl, indices), out |-> <<>>]

\* lines 136-163, one pass of the loop on the input line raw:
\* "exit" (sys.exit), "return" (with the selected paths) or "retry" (loop again)
Selection(fl, raw) ==
    LET selection == Strip(raw)
        tokens == Split(selection)
        indices == [k \in DOMAIN tokens |-> ParseInt(tokens[k])]
        valid_indices == {fl[k][1] : k \in DOMAIN fl}
        bad == FirstInvalid(indices, valid_indices)
    IN IF Lower(selection) \in QuitTokens
       THEN [result |-> "exit", selected |-> <<>>, out |-> <<>>]
       ELSE IF selection = <<".">>
       THEN [result |-> "return", selected |-> [k \in DOMAIN fl |-> fl[k][2]], out |-> <<>>]
       ELSE IF Lower(selection) = <<"n","o","n","e">>
       THEN [result |-> "return", selected |-> <<>>, out |-> <<>>]
       ELSE IF \E k \in DOMAIN tokens : ~IsInt(tokens[k])
       THEN [result |-> "retry", selected |-> <<>>,
             out |-> <<Say("Invalid input. Please enter indices like '1 2 3' or '.' or 'none'.")>>]
       ELSE IF bad # <<>>
       THEN [result |-> "retry", selected |-> <<>>,
             out |-> <<Line("Index {i} is not in the list of files.", <<>>, bad[1])>>]
       ELSE [result |-> "return", selected |-> Resolve(fl, indices), out |-> <<>>]

----------------------------------------------------------------------------
(* search_in_files *)

\* what open(f) and readlines() give: the text of the file, or the exception raised
Text(chars) == [err |-> "", text |-> chars]
Fails(exception) == [err |-> exception, text |-> <<>>]

\* line 185
CaughtErrors == {"UnicodeDecodeError", "PermissionError", "FileNotFoundError"}

\* exceptions of open() that line 185 does not name: the path is a directory
\* (IsADirectoryError), a symbolic link that loops or a socket (OSError)
OtherErrors == {"IsADirectoryError", "OSError"}

\* readlines(): the lines of the text, each with its line end
RECURSIVE ReadLinesFrom(_, _, _)
ReadLinesFrom(text, cur, acc) ==
    IF text = <<>> THEN (IF cur = <<>> THEN acc ELSE Append(acc, cur))
    ELSE IF Head(text) = "\n"
         THEN ReadLinesFrom(Tail(text), <<>>, Append(acc, Append(cur, "\n")))
         ELSE ReadLinesFrom(Tail(text), Append(cur, Head(text)), acc)

ReadLines(text) == ReadLinesFrom(text, <<>>, <<>>)

\* line 179 with any() for all()
LineMatchesAny(line, terms) ==
    \E k \in DOMAIN terms : Contains(Lower(line), terms[k])

\* line 179, for lower-cased terms
LineMatches(line, terms) ==
    \A k \in DOMAIN terms : Contains(Lower(line), terms[k])

\* lines 176-180: the indices of the matching lines, ascending
MatchedLines(lines, terms) ==
    SelectSeq([k \in DOMAIN lines |-> k], LAMBDA k : LineMatches(lines[k], terms))

\* lines 181-184: what is printed for file f
FileReport(f, lines, terms) ==
    LET matched == MatchedLines(lines, terms)
    IN IF matched = <<>> THEN <<>>
       ELSE <<Line("\nFile: {f}", f, 0)>>
            \o [k \in DOMAIN matched |->
                  Line("  Line {ln}: {text}", Strip(lines[matched[k]]), matched[k])]

\* lines 172-187: the loop over files; printed is the output so far
RECURSIVE SearchLoop(_, _, _, _)
SearchLoop(files, terms, d, printed) ==
    IF files = <<>> THEN [out |-> printed, raised |-> ""]
    ELSE LET f == Head(files)
         IN IF d[f].err \in CaughtErrors
            THEN SearchLoop(Tail(files), terms, d, printed)
            ELSE IF d[f].err # ""
            THEN [out |-> printed, raised |-> d[f].err]
            ELSE SearchLoop(Tail(files), terms, d,
                            printed \o FileReport(f, ReadLines(d[f].text), terms))

\* lines 165-187
search_in_files(files, search_terms, d) ==
    SearchLoop(files, [k \in DOMAIN search_terms |-> Lower(search_terms[k])], d, <<>>)

----------------------------------------------------------------------------
(* The session: main and get_folder_path *)

Range(seq) == {seq[k] : k \in DOMAIN seq}

\* the disks that give every path of paths one of the outcomes of data
Disks(paths, data) == [paths -> data]

NoDisk == [p \in {} |-> Text(<<>>)]

\* os.path.isdir(folder), for the current directory, its absolute path and the
\* names of its entries: the directory entry, or -1
ResolveDir(t, folder) ==
    IF folder = CWD THEN 0
    ELSE IF \E e \in Entries(t) : t.parent[e] = 0 /\ t.name[e] = folder /\ t.kind[e] = "dir"
    THEN ChildNamed(t, 0, folder)
    ELSE 0 - 1

\* sys.exit("Quitting..."): the message goes to stderr and the status is 1
Quit(prompt, raw) ==
    /\ pc' = "exited"
    /\ exit_status' = 1
    /\ exit_via' = "sys.exit('Quitting...')"
    /\ last_prompt' = prompt
    /\ last_input' = raw
    /\ out' = <<>>
    /\ searched' = <<>>
    /\ UNCHANGED <<fs, disk, tree_out, file_list, selected_files>>

\* line 247 and the return of main
Done(prompt, raw) ==
    /\ pc' = "exited"
    /\ exit_status' = 0
    /\ exit_via' = "return"
    /\ last_prompt' = prompt
    /\ last_input' = raw
    /\ out' = <<Say("\nDone. Exiting...")>>
    /\ searched' = <<>>
    /\ UNCHANGED <<fs, disk, tree_out, file_list, selected_files>>

\* a diagnostic, and the same input() again
Retry(prompt, raw, lines) ==
    /\ pc' = pc
    /\ last_prompt' = prompt
    /\ last_input' = raw
    /\ out' = lines
    /\ searched' = <<>>
    /\ UNCHANGED <<fs, disk, tree_out, file_list, selected_files, exit_status, exit_via>>

\* on to the next input()
Advance(prompt, raw, next, lines) ==
    /\ pc' = next
    /\ last_prompt' = prompt
    /\ last_input' = raw
    /\ out' = lines
    /\ searched' = <<>>
    /\ UNCHANGED <<fs, disk, tree_out, file_list, selected_files, exit_status, exit_via>>

\* lines 193-204 with every answer but 'y' taken as 'n'
MapPromptDefaultsToNo(raw) ==
    /\ pc = "map_prompt"
    /\ LET map_choice == Lower(Strip(raw))
       IN IF map_choice \in QuitTokens THEN Quit("map_prompt", raw)
          ELSE IF map_choice = <<"y">>
          THEN Advance("map_prompt", raw, "folder_prompt", <<>>)
          ELSE /\ pc' = "exited"
               /\ exit_status' = 0
               /\ exit_via' = "sys.exit(0)"
               /\ last_prompt' = "map_prompt"
               /\ last_input' = raw
               /\ out' = <<Say("No folder mapping selected. Exiting...")>>
               /\ searched' = <<>>
               /\ UNCHANGED <<fs, disk, tree_out, file_list, selected_files>>

\* lines 193-204
MapPrompt(raw) ==
    /\ pc = "map_prompt"
    /\ LET map_choice == Lower(Strip(raw))
       IN IF map_choice \in QuitTokens THEN Quit("map_prompt", raw)
          ELSE IF map_choice \notin {<<"y">>, <<"n">>}
          THEN Retry("map_prompt", raw, <<Say("Invalid input. Please answer 'y' or 'n'.")>>)
          ELSE IF map_choice = <<"n">>
          THEN /\ pc' = "exited"
               /\ exit_status' = 0
               /\ exit_via' = "sys.exit(0)"
               /\ last_prompt' = "map_prompt"
               /\ last_input' = raw
               /\ out' = <<Say("No folder mapping selected. Exiting...")>>
               /\ searched' = <<>>
               /\ UNCHANGED <<fs, disk, tree_out, file_list, selected_files>>
          ELSE Advance("map_prompt", raw, "folder_prompt", <<>>)

\* lines 37-46, then lines 207-221 up to the first input() of prompt_file_selection
\* (lines 123-133), or past it when no file was found
FolderPrompt(raw) ==
    /\ pc = "folder_prompt"
    /\ LET typed == Strip(raw)
           folder == IF typed = <<>> \/ typed = <<".">> THEN CWD ELSE typed
           d == ResolveDir(fs, folder)
           fl == scan_directory(fs, d, folder)
       IN IF Lower(typed) \in QuitTokens THEN Quit("folder_prompt", raw)
          ELSE IF d < 0
          THEN Retry("folder_prompt", raw,
                     <<Line("Error: '{folder}' is not a valid directory. Please try again.",
                            folder, 0)>>)
          ELSE /\ tree_out' = print_folder_tree(fs, d, folder, <<>>)
               /\ file_list' = fl
               /\ last_prompt' = "folder_prompt"
               /\ last_input' = raw
               /\ searched' = <<>>
               /\ IF fl = <<>>
                  THEN /\ out' = <<Say("\nFolder Tree:\n"), Say("No files found."),
                                   Say("No files selected.")>>
                       /\ selected_files' = <<>>
                       /\ pc' = "search_prompt"
                  ELSE /\ out' = <<Say("\nFolder Tree:\n")>> \o ListingLines(fl)
                       /\ selected_files' = selected_files
                       /\ pc' = "selection_prompt"
               /\ UNCHANGED <<fs, disk, exit_status, exit_via>>

\* lines 135-163, then lines 218-221
SelectionPrompt(raw) ==
    /\ pc = "selection_prompt"
    /\ LET r == Selection(file_list, raw)
       IN IF r.result = "exit" THEN Quit("selection_prompt", raw)
          ELSE IF r.result = "retry" THEN Retry("selection_prompt", raw, r.out)
          ELSE /\ selected_files' = r.selected
               /\ pc' = "search_prompt"
               /\ last_prompt' = "selection_prompt"
               /\ last_input' = raw
               /\ out' = IF r.selected = <<>>
                         THEN <<Say("No files selected.")>>
                         ELSE <<Line("\nYou have selected {len(selected_files)} file(s).",
                                     <<>>, Len(r.selected))>>
               /\ searched' = <<>>
               /\ UNCHANGED <<fs, disk, tree_out, file_list, exit_status, exit_via>>

\* lines 225-232
SearchPrompt(raw) ==
    /\ pc = "search_prompt"
    /\ LET search_choice == Lower(Strip(raw))
       IN IF search_choice \in QuitTokens THEN Quit("search_prompt", raw)
          ELSE IF search_choice \notin {<<"y">>, <<"n">>}
          THEN Retry("search_prompt", raw, <<Say("Invalid input. Please answer 'y' or 'n'.")>>)
          ELSE IF search_choice = <<"n">> THEN Done("search_prompt", raw)
          ELSE Advance("search_prompt", raw, "terms_prompt", <<>>)

\* lines 234-241; data holds the outcomes the file system may give for a file
\* when search_in_files opens it
TermsPrompt(raw, data) ==
    /\ pc = "terms_prompt"
    /\ LET search_input == Strip(raw)
           search_terms == Split(search_input)
       IN IF search_input = <<".">> THEN Done("terms_prompt", raw)
          ELSE IF search_terms = <<>>
          THEN Advance("terms_prompt", raw, "another_prompt", <<Say("No search terms entered.")>>)
          ELSE \E d \in Disks(Range(selected_files), data) :
                 LET r == search_in_files(selected_files, search_terms, d)
                 IN /\ disk' = d
                    /\ searched' = <<[files |-> selected_files, terms |-> search_terms]>>
                    /\ out' = r.out
                    /\ last_prompt' = "terms_prompt"
                    /\ last_input' = raw
                    /\ IF r.raised = ""
                       THEN /\ pc' = "another_prompt"
                            /\ UNCHANGED <<exit_status, exit_via>>
                       ELSE /\ pc' = "exited"
                            /\ exit_status' = 1
                            /\ exit_via' = r.raised
                    /\ UNCHANGED <<fs, tree_out, file_list, selected_files>>

\* lines 243-245
AnotherPrompt(raw) ==
    /\ pc = "another_prompt"
    /\ LET another == Lower(Strip(raw))
       IN IF another # <<"y">> THEN Done("another_prompt", raw)
          ELSE Advance("another_prompt", raw, "search_prompt", <<>>)

----------------------------------------------------------------------------
(* Inputs *)

YesNoInputs ==
    { <<"y">>, <<" ","Y"," ">>, <<"n">>, <<"N">>, <<"q">>, <<"Q","U","I","T">>,
      <<"q","u","i","t"," ">>, <<"m","a","y","b","e">>, <<"y","e","s">>, <<>> }

FolderInputs ==
    { <<>>, <<".">>, <<" ","."," ">>, <<"/","w">>, <<"q">>, <<"Q","u","i","t">>,
      <<"n","o","d","i","r">> } \cup EntryNames

SelectionWords ==
    { <<"q">>, <<"Q">>, <<"q","u","i","t">>, <<" ","Q","U","I","T">>, <<".">>, <<" ","."," ">>,
      <<"n","o","n","e">>, <<"N","o","n","e">>, <<"x">>, <<"1"," ","x">>, <<"x"," ","9">>,
      <<"-">>, <<"-","1">>, <<"+","1">>, <<"1",".","0">> }

SelectionInputs ==
    SeqsUpTo({"0", "1", "2", " "}, MaxInputLen) \cup SelectionWords

TermInputs ==
    { <<"a">>, <<"B">>, <<"a","b">>, <<"b","a">>, <<"a"," ","B">>, <<" ","b"," "," ","A">>,
      <<".">>, <<>>, <<" "," ">>, <<"q">>, <<"Q","U","I","T">> }

\* the texts of at most n characters in two letters and the line end
FileTexts(n) == { Text(s) : s \in SeqsUpTo({"A", "b", "\n"}, n) }

FileOutcomes(n) == FileTexts(n) \cup { Fails(e) : e \in CaughtErrors \cup OtherErrors }

SearchOutcomes == FileOutcomes(MaxFileLen)

SessionSelectionInputs ==
    SelectionWords \cup
    { <<>>, <<" ">>, <<"1">>, <<"1"," ","1">>, <<"2">>, <<"2"," ","1">>, <<"0"," ","1">>,
      <<"1"," ","0">>, <<"x">>, <<"1"," ","x">> }

SessionOutcomes ==
    { Text(<<"A","b","\n">>), Text(<<"b","\n","A">>), Fails("PermissionError"),
      Fails("OSError") }

\* a directory of k plain files f1 .. fk
FlatTree(k) ==
    [n |-> k, name |-> [i \in 1..k |-> <<"f", Digits[i + 1]>>],
     kind |-> [i \in 1..k |-> "file"], parent |-> [i \in 1..k |-> 0]]

----------------------------------------------------------------------------
(* Specifications *)

\* the script started in the current directory t, before the first input()
Init ==
    /\ fs \in TreesUpTo(SessionEntries, EntryNames)
    /\ disk = NoDisk
    /\ pc = "map_prompt"
    /\ tree_out = <<>>
    /\ file_list = <<>>
    /\ selected_files = <<>>
    /\ last_prompt = ""
    /\ last_input = <<>>
    /\ out = <<>>
    /\ searched = <<>>
    /\ exit_status = 0
    /\ exit_via = ""

Next ==
    \/ \E raw \in YesNoInputs : MapPrompt(raw)
    \/ \E raw \in FolderInputs : FolderPrompt(raw)
    \/ \E raw \in SessionSelectionInputs : SelectionPrompt(raw)
    \/ \E raw \in YesNoInputs : SearchPrompt(raw)
    \/ \E raw \in TermInputs : TermsPrompt(raw, SessionOutcomes)
    \/ \E raw \in YesNoInputs : AnotherPrompt(raw)

Spec == Init /\ [][Next]_vars

\* the session after 'y' at the map prompt, in any directory tree
InitScan ==
    /\ fs \in TreesUpTo(MaxEntries, EntryNames)
    /\ disk = NoDisk
    /\ pc = "folder_prompt"
    /\ tree_out = <<>>
    /\ file_list = <<>>
    /\ selected_files = <<>>
    /\ last_prompt = "map_prompt"
    /\ last_input = <<"y">>
    /\ out = <<>>
    /\ searched = <<>>
    /\ exit_status = 0
    /\ exit_via = ""

NextScan == \E raw \in FolderInputs : FolderPrompt(raw)

SpecScan == InitScan /\ [][NextScan]_vars

\* the session after 'y' at the map prompt, in a directory of plain files
InitSelect ==
    /\ fs \in {FlatTree(k) : k \in 0..MaxFiles}
    /\ disk = NoDisk
    /\ pc = "folder_prompt"
    /\ tree_out = <<>>
    /\ file_list = <<>>
    /\ selected_files = <<>>
    /\ last_prompt = "map_prompt"
    /\ last_input = <<"y">>
    /\ out = <<>>
    /\ searched = <<>>
    /\ exit_status = 0
    /\ exit_via = ""

NextSelect ==
    \/ \E raw \in {<<>>, <<".">>} : FolderPrompt(raw)
    \/ \E raw \in SelectionInputs : SelectionPrompt(raw)

SpecSelect == InitSelect /\ [][NextSelect]_vars

\* the session at the search terms prompt, in a directory of two plain files, after
\* any selection
InitSearch ==
    /\ fs = FlatTree(2)
    /\ disk = NoDisk
    /\ pc = "terms_prompt"
    /\ tree_out = print_folder_tree(fs, 0, CWD, <<>>)
    /\ file_list = scan_directory(fs, 0, CWD)
    /\ selected_files \in
          { Selection(file_list, raw).selected :
              raw \in {r \in SelectionInputs : Selection(file_list, r).result = "return"} }
    /\ last_prompt = "search_prompt"
    /\ last_input = <<"y">>
    /\ out = <<>>
    /\ searched = <<>>
    /\ exit_status = 0
    /\ exit_via = ""

NextSearch == \E raw \in TermInputs : TermsPrompt(raw, SearchOutcomes)

SpecSearch == InitSearch /\ [][NextSearch]_vars

----------------------------------------------------------------------------
(* Properties *)

\* the folder prompt was answered with a directory: the tree was printed and scanned
Scanned == last_prompt = "folder_prompt" /\ pc \in {"selection_prompt", "search_prompt"}

\* the folder that was printed and scanned, as a path and as a directory of fs
ScannedFolder ==
    LET typed == Strip(last_input)
    IN IF typed = <<>> \/ typed = <<".">> THEN CWD ELSE typed

ScannedDir == ResolveDir(fs, ScannedFolder)

\* the filter as the specification words it
HiddenName(nm) == nm # <<>> /\ nm[1] = "."

IgnoredDirNames ==
    { <<"n","o","d","e","_","m","o","d","u","l","e","s">>, <<".","g","i","t">>,
      <<"b","u","i","l","d">>, <<"d","i","s","t">>,
      <<"_","_","p","y","c","a","c","h","e","_","_">> }

IgnoredFileNames ==
    { <<".","D","S","_","S","t","o","r","e">>,
      <<"p","a","c","k","a","g","e","-","l","o","c","k",".","j","s","o","n">>,
      <<"y","a","r","n",".","l","o","c","k">> }

IsIgnoredDir(nm) == HiddenName(nm) \/ nm \in IgnoredDirNames
IsIgnoredFile(nm) == HiddenName(nm) \/ nm \in IgnoredFileNames
IsIgnoredName(nm) == HiddenName(nm) \/ nm \in IgnoredDirNames \cup IgnoredFileNames

\* entry e lies below directory d and no directory between d and e is ignored
RECURSIVE NotPruned(_, _, _)
NotPruned(t, d, e) ==
    IF t.parent[e] = d THEN TRUE
    ELSE IF t.parent[e] = 0 THEN FALSE
    ELSE ~IsIgnoredDir(t.name[t.parent[e]]) /\ NotPruned(t, d, t.parent[e])

SurvivingFiles(t, d) ==
    { e \in Entries(t) : t.kind[e] = "file" /\ ~IsIgnoredFile(t.name[e]) /\ NotPruned(t, d, e) }

\* C1: the indices of the list scan_directory returns are 1..count in list order,
\* count being the number of files that are not ignored and not below a pruned
\* directory.
C1_IndicesAreOneToCount ==
    Scanned =>
        /\ Len(file_list) = Cardinality(SurvivingFiles(fs, ScannedDir))
        /\ \A k \in DOMAIN file_list : file_list[k][1] = k

\* an ignored file is listed first in a folder of three files: two files survive
C1_Witness ==
    /\ Scanned
    /\ ScannedDir = 0
    /\ fs.n = 3
    /\ \A e \in Entries(fs) : fs.parent[e] = 0 /\ fs.kind[e] = "file"
    /\ IsIgnoredFile(fs.name[1])
    /\ Len(file_list) = 2

\* the name a line of the tree shows: without the indentation and the final "/"
ShownName(line) ==
    LET s == LStrip(line)
    IN IF s # <<>> /\ s[Len(s)] = "/" THEN SubSeq(s, 1, Len(s) - 1) ELSE s

ShowsDirectory(line) == line # <<>> /\ line[Len(line)] = "/"

\* the components of a path
RECURSIVE PathPartsFrom(_, _, _)
PathPartsFrom(path, cur, acc) ==
    IF path = <<>> THEN Append(acc, cur)
    ELSE IF Head(path) = "/" THEN PathPartsFrom(Tail(path), <<>>, Append(acc, cur))
    ELSE PathPartsFrom(Tail(path), Append(cur, Head(path)), acc)

PathParts(path) == PathPartsFrom(path, <<>>, <<>>)

\* C2 as stated: no name that starts with '.' or is one of the configured ignored
\* names appears in the tree output or in the enumerated list, for a directory or
\* a file alike.
C2_NoIgnoredNameShown ==
    Scanned =>
        /\ \A k \in DOMAIN tree_out : ~IsIgnoredName(ShownName(tree_out[k]))
        /\ \A k \in DOMAIN file_list :
              \A j \in DOMAIN PathParts(file_list[k][2]) :
                  ~IsIgnoredName(PathParts(file_list[k][2])[j])

\* C2 amended: below the scanned folder, no directory that is hidden or named in
\* the ignored-directory set and no file that is hidden or named in the
\* ignored-file set appears in the tree output or in the enumerated list.
C2_NoIgnoredEntryShown ==
    Scanned =>
        /\ \A k \in 2..Len(tree_out) :
              IF ShowsDirectory(tree_out[k])
              THEN ~IsIgnoredDir(ShownName(tree_out[k]))
              ELSE ~IsIgnoredFile(ShownName(tree_out[k]))
        /\ \A k \in DOMAIN file_list :
              LET parts == PathParts(file_list[k][2])
                  below == Len(PathParts(ScannedFolder))
              IN /\ Len(parts) > below
                 /\ ~IsIgnoredFile(parts[Len(parts)])
                 /\ \A j \in (below + 1)..(Len(parts) - 1) : ~IsIgnoredDir(parts[j])

\* an ignored directory holds a plain file, and a file beside it is listed
C2_Witness ==
    /\ Scanned
    /\ ScannedDir = 0
    /\ Len(file_list) = 1
    /\ Len(tree_out) = 2
    /\ \E e, c \in Entries(fs) :
          /\ fs.parent[e] = 0 /\ fs.kind[e] = "dir" /\ fs.name[e] \in IgnoredDirNames
          /\ fs.parent[c] = e /\ fs.kind[c] = "file" /\ ~IsIgnoredFile(fs.name[c])

\* the selection prompt was answered
AnsweredSelection == last_prompt = "selection_prompt"

SelectionTokens == Split(Strip(last_input))

AllIntegers == \A k \in DOMAIN SelectionTokens : IsInt(SelectionTokens[k])

ListedIndices == {file_list[k][1] : k \in DOMAIN file_list}

\* C3: an input of integers of which one is no index of the list selects nothing,
\* names the first such integer in its diagnostic, and the prompt is asked again.
C3_FirstInvalidIndexRetries ==
    ( /\ AnsweredSelection
      /\ AllIntegers
      /\ \E k \in DOMAIN SelectionTokens : ParseInt(SelectionTokens[k]) \notin ListedIndices )
    =>
        /\ pc = "selection_prompt"
        /\ selected_files = <<>>
        /\ \E k \in DOMAIN SelectionTokens :
              /\ ParseInt(SelectionTokens[k]) \notin ListedIndices
              /\ \A j \in 1..(k - 1) : ParseInt(SelectionTokens[j]) \in ListedIndices
              /\ out = <<Line("Index {i} is not in the list of files.", <<>>,
                              ParseInt(SelectionTokens[k]))>>

\* a valid index is followed by an invalid one
C3_Witness ==
    /\ AnsweredSelection
    /\ AllIntegers
    /\ Len(SelectionTokens) = 2
    /\ ParseInt(SelectionTokens[1]) \in ListedIndices
    /\ ParseInt(SelectionTokens[2]) \notin ListedIndices
    /\ pc = "selection_prompt"

\* C4: an input of valid indices returns one path per token, in input order, the
\* k-th being the path of the entry whose index is the k-th token; a repeated
\* index repeats the path.
C4_SelectionFollowsInput ==
    ( /\ AnsweredSelection
      /\ SelectionTokens # <<>>
      /\ AllIntegers
      /\ \A k \in DOMAIN SelectionTokens : ParseInt(SelectionTokens[k]) \in ListedIndices )
    =>
        /\ pc = "search_prompt"
        /\ Len(selected_files) = Len(SelectionTokens)
        /\ \A k \in DOMAIN SelectionTokens :
              \E j \in DOMAIN file_list :
                  /\ file_list[j][1] = ParseInt(SelectionTokens[k])
                  /\ selected_files[k] = file_list[j][2]

\* '1 1' on a list of one file
C4_Witness ==
    /\ AnsweredSelection
    /\ Len(file_list) = 1
    /\ last_input = <<"1", " ", "1">>
    /\ selected_files = <<file_list[1][2], file_list[1][2]>>

\* C10: on a list that is not empty, an input of no token returns the empty
\* selection at once, with no diagnostic, as 'none' does; on an empty list the
\* empty selection is returned without the selection prompt being shown.
C10_NoTokenSelectsNothing ==
    /\ (AnsweredSelection /\ SelectionTokens = <<>>) =>
          /\ pc = "search_prompt"
          /\ selected_files = <<>>
          /\ out = <<Say("No files selected.")>>
    /\ pc = "selection_prompt" => file_list # <<>>
    /\ (Scanned /\ file_list = <<>>) =>
          /\ pc = "search_prompt"
          /\ selected_files = <<>>
          /\ out = <<Say("\nFolder Tree:\n"), Say("No files found."), Say("No files selected.")>>

\* two blanks are entered on a list that is not empty
C10_Witness ==
    /\ AnsweredSelection
    /\ last_input = <<" ", " ">>
    /\ file_list # <<>>
    /\ pc = "search_prompt"

\* the search terms prompt was answered with terms: search_in_files was called
Searched == last_prompt = "terms_prompt" /\ searched # <<>>

Readable(f) == disk[f].err = ""

\* term occurs in line, letter case apart
OccursIn(term, line) ==
    \E i \in 1..(Len(line) - Len(term) + 1) :
        \A c \in 1..Len(term) : LowerChar(line[i + c - 1]) = LowerChar(term[c])

\* the numbers of the lines of f in which every term occurs
MatchingNumbers(f, terms) ==
    LET lines == ReadLines(disk[f].text)
    IN { k \in DOMAIN lines : \A j \in DOMAIN terms : OccursIn(terms[j], lines[k]) }

RECURSIVE Ascending(_)
Ascending(S) ==
    IF S = {} THEN <<>>
    ELSE LET m == CHOOSE x \in S : \A y \in S : x <= y
         IN <<m>> \o Ascending(S \ {m})

\* the header of f and its matching line numbers, or nothing
ExpectedReport(f, terms) ==
    LET numbers == Ascending(MatchingNumbers(f, terms))
    IN IF numbers = <<>> THEN <<>>
       ELSE <<[shows |-> "file", path |-> f, number |-> 0]>>
            \o [k \in DOMAIN numbers |-> [shows |-> "line", path |-> <<>>, number |-> numbers[k]]]

\* what the printed lines show: a file header or a numbered line
Shown(lines) ==
    [k \in DOMAIN lines |->
        IF lines[k].fmt = "\nFile: {f}"
        THEN [shows |-> "file", path |-> lines[k].s, number |-> 0]
        ELSE [shows |-> "line", path |-> <<>>, number |-> lines[k].n]]

\* C5: on readable files, search_in_files reports exactly the lines in which every
\* term occurs case-insensitively, with their 1-based numbers, file by file in input
\* order and by ascending number within a file; a file without a match prints nothing.
C5_ReportsExactlyTheMatches ==
    (Searched /\ \A k \in DOMAIN selected_files : Readable(selected_files[k])) =>
        /\ pc = "another_prompt"
        /\ Shown(out) =
              Concat([k \in DOMAIN selected_files |->
                        ExpectedReport(selected_files[k], searched[1].terms)])

\* two terms, two readable files: the second file matches on its second line only,
\* the first file has one of the terms only
C5_Witness ==
    /\ Searched
    /\ Len(searched[1].terms) = 2
    /\ Len(selected_files) = 2
    /\ selected_files[1] # selected_files[2]
    /\ \A k \in DOMAIN selected_files : Readable(selected_files[k])
    /\ MatchingNumbers(selected_files[1], searched[1].terms) = {}
    /\ MatchingNumbers(selected_files[1], <<searched[1].terms[1]>>) # {}
    /\ MatchingNumbers(selected_files[2], searched[1].terms) = {2}
    /\ Len(out) = 2

\* C6: search_in_files never raises because a file cannot be opened or decoded; such
\* a file is skipped without output and every other file is searched and reported.
C6_UnreadableFilesAreSkipped ==
    Searched =>
        /\ pc = "another_prompt"
        /\ Shown(out) =
              Concat([k \in DOMAIN selected_files |->
                        IF Readable(selected_files[k])
                        THEN ExpectedReport(selected_files[k], searched[1].terms)
                        ELSE <<>>])

Prompts ==
    {"map_prompt", "folder_prompt", "selection_prompt", "search_prompt", "terms_prompt",
     "another_prompt"}

\* C7: 'q' or 'quit' at any prompt ends the process through the quit path; no search
\* is run and no further prompt is shown.
C7_QuitAtEveryPrompt ==
    (last_prompt \in Prompts /\ Lower(Strip(last_input)) \in QuitTokens) =>
        /\ pc = "exited"
        /\ exit_via = "sys.exit('Quitting...')"
        /\ searched = <<>>

\* an answer the prompt does not recognize: neither a quit token nor y or n, no
\* directory, or a selection with a token that is no index of the list
Unrecognized(prompt, raw) ==
    LET typed == Strip(raw)
        answer == Lower(typed)
        tokens == Split(typed)
    IN /\ answer \notin QuitTokens
       /\ CASE prompt \in {"map_prompt", "search_prompt", "another_prompt"} ->
                  answer \notin {<<"y">>, <<"n">>}
            [] prompt = "folder_prompt" ->
                  ResolveDir(fs, IF typed = <<>> \/ typed = <<".">> THEN CWD ELSE typed) < 0
            [] prompt = "selection_prompt" ->
                  /\ typed # <<".">>
                  /\ answer # <<"n","o","n","e">>
                  /\ \E k \in DOMAIN tokens :
                        ~IsInt(tokens[k]) \/ ParseInt(tokens[k]) \notin ListedIndices
            [] OTHER -> FALSE

\* a diagnostic is printed, the same prompt is shown again, and the list and the
\* selection are as they were
Reprompted ==
    /\ pc' = pc
    /\ out' # <<>>
    /\ file_list' = file_list
    /\ selected_files' = selected_files

\* C8 as stated: at every prompt that expects y/n, a folder or indices, an
\* unrecognized answer prints a diagnostic and repeats the prompt, leaving the list
\* and the selection unchanged.
C8_UnrecognizedAlwaysReprompts ==
    [][Unrecognized(pc, last_input') => Reprompted]_vars

\* C8 amended: so it is at the map, folder, selection and search prompts; at the
\* 'Another search?' prompt an unrecognized answer ends the session as 'n' does,
\* with exit status 0 and without a diagnostic, the list and the selection unchanged.
C8_UnrecognizedRepromptsButAnother ==
    [][ /\ (pc # "another_prompt" /\ Unrecognized(pc, last_input')) => Reprompted
        /\ (pc = "another_prompt" /\ Unrecognized(pc, last_input')) =>
              /\ pc' = "exited"
              /\ exit_status' = 0
              /\ exit_via' = "return"
              /\ out' = <<Say("\nDone. Exiting...")>>
              /\ file_list' = file_list
              /\ selected_files' = selected_files ]_vars

\* with a file selected, the search prompt is shown again after an unrecognized answer
C8_Witness ==
    /\ pc = "search_prompt"
    /\ last_prompt = "search_prompt"
    /\ Unrecognized("search_prompt", last_input)
    /\ selected_files # <<>>
    /\ out = <<Say("Invalid input. Please answer 'y' or 'n'.")>>

\* C9: every way the session ends is a success: the exit status is 0 on normal
\* completion, on 'n' at the map prompt and on a quit token at a prompt.
C9_EveryExitIsSuccess == pc = "exited" => exit_status = 0

====
